---- MODULE Spec2Model ----
(***************************************************************************)
(* A model of cocotb_coverage/coverage.py: the coverage registry           *)
(* (coverage_db), the CoverItem tree with its incremental size / coverage  *)
(* counters, the three bin-bearing primitives CoverPoint, CoverCross and   *)
(* CoverCheck, and the bins / threshold callbacks.                         *)
(*                                                                         *)
(* A name is the sequence of its dot-separated segments: "t.g.x" is        *)
(* <<"t","g","x">>.  A callback is a user function of no arguments; the    *)
(* model records which callbacks one operation called, in call order, in   *)
(* the variable fired.  The value a CoverPoint matches against its bins is *)
(* the result of its transformation function on the call's arguments; the  *)
(* model takes that result as the input of the sample.  The results of a   *)
(* CoverCheck's f_fail and f_pass on the call's arguments are two booleans *)
(* and are the input of a CoverCheck sample.                               *)
(***************************************************************************)
EXTENDS Integers, Sequences, FiniteSets, TLC

VARIABLES
    coverage_db,    \* name -> object (the global dict of coverage.py)
    ret,            \* what the last constructor call returned (an object id), or NoRet
    raised,         \* the exception the last operation ended with, or "none"
    fired,          \* the callbacks the last operation called, in call order
    seen,           \* what each callback of fired could read in coverage_db when
                    \* it was called
    trace,          \* what the last call ran, in order: the objects that sampled,
                    \* then the decorated function
    last,           \* the last operation and its inputs
    callback_calls, \* how many times each callback has been called so far
    ncalls,         \* number of calls of decorated functions made
    harness         \* the test bench in use: an index of Harnesses

vars == <<coverage_db, ret, raised, fired, seen, trace, last, callback_calls, ncalls, harness>>

----------------------------------------------------------------------------
(* Bounds of the model *)

MaxCalls == 3       \* calls of decorated functions in one run
MaxCheckCalls == 5  \* the same, in the run of a CoverCheck alone

----------------------------------------------------------------------------
(* Inputs *)

NoRet == 0 - 1
NoName == << >>     \* _parent = None

\* An ignore pattern position: a bin value, or None.
None == 0

t_p == <<"t", "p">>
t_q == <<"t", "q">>
t_g_x == <<"t", "g", "x">>
t_g_c == <<"t", "g", "c">>
bare == <<"a">>     \* a name without a parent segment
top == <<"t">>
t_g == <<"t", "g">>

\* constructor arguments
PArgs(bins, rel, weight, at_least, inj) ==
    [bins |-> bins, rel |-> rel, weight |-> weight, at_least |-> at_least, inj |-> inj]
XArgs(items, ign_bins, weight, at_least) ==
    [items |-> items, ign_bins |-> ign_bins, weight |-> weight, at_least |-> at_least]
CArgs(weight, at_least) == [weight |-> weight, at_least |-> at_least]

\* A test bench: the names and constructor arguments its decorators use,
\* the values its transformation functions return, the decorator stacks of
\* its functions (outermost decorator first) and the callbacks it
\* registers (<<name, threshold>>, <<name, bin>>), and the number of calls
\* of a run.
Bench(pn, pa, xn, xa, cn, ca, values, stacks, thresholds, bins, calls) ==
    [pointNames |-> pn, pointArgs |-> pa, crossNames |-> xn, crossArgs |-> xa,
     checkNames |-> cn, checkArgs |-> ca, values |-> values, stacks |-> stacks,
     thresholds |-> thresholds, bins |-> bins, calls |-> calls]

Harnesses ==
    << \* a point: first match and injection, weights and at_least
       Bench({t_p},
             { PArgs(<<1, 2, 3>>, "eq", 1, 1, FALSE), PArgs(<<1, 2>>, "lt", 2, 2, TRUE),
               PArgs(<<2, 3>>, "lt", 1, 2, FALSE) },
             { }, { }, { }, { },
             0 .. 3, { <<t_p>> },
             { <<t_p, 50>>, <<top, 100>> }, << <<t_p, 1>>, <<t_p, 2>> >>, MaxCalls),
       \* a point without bins, a point whose bins are not in increasing order
       Bench({t_p},
             { PArgs(<< >>, "eq", 1, 1, FALSE), PArgs(<<3, 1>>, "lt", 1, 1, FALSE) },
             { }, { }, { }, { },
             0 .. 2, { <<t_p>> },
             { <<t_p, 100>> }, << <<t_p, 1>> >>, MaxCalls),
       \* a cross of two points, sampled after them
       Bench({t_p, t_q},
             { PArgs(<<1, 2>>, "eq", 1, 1, FALSE) },
             {t_g_x},
             { XArgs(<<t_p, t_q>>, { <<1, 1>> }, 1, 1) },
             { }, { },
             1 .. 2, { <<t_p, t_q, t_g_x>> },
             { <<t_g, 50>> }, << <<t_g_x, <<2, 2>> >> >>, MaxCalls),
       \* a cross of two points, sampled after them or before them
       Bench({t_p, t_q},
             { PArgs(<<1, 2>>, "eq", 1, 1, FALSE) },
             {t_g_x},
             { XArgs(<<t_p, t_q>>, { <<None, 2>>, <<1, None>> }, 1, 1),
               XArgs(<<t_q, t_p>>, { }, 2, 2) },
             { }, { },
             1 .. 2, { <<t_p, t_q, t_g_x>>, <<t_g_x, t_p, t_q>> },
             { }, << >>, MaxCalls),
       \* a cross of two points that match several bins at once
       Bench({t_p, t_q},
             { PArgs(<<1, 2>>, "lt", 1, 1, TRUE) },
             {t_g_x},
             { XArgs(<<t_p, t_q>>, { <<1, 1>> }, 1, 1) },
             { }, { },
             0 .. 2, { <<t_p, t_q, t_g_x>> },
             { }, << >>, MaxCalls),
       \* a cross all of whose tuples are ignored, a cross of one point, a
       \* cross of a point that is not registered
       Bench({t_q},
             { PArgs(<<1, 2>>, "eq", 1, 1, FALSE) },
             {t_g_x},
             { XArgs(<<t_q>>, { <<None>> }, 1, 1), XArgs(<<t_q>>, { <<2>> }, 1, 1),
               XArgs(<<t_p, t_q>>, { }, 1, 1) },
             { }, { },
             0 .. 1, { <<t_q, t_g_x>>, <<t_g_x>> },
             { <<t_g_x, 50>>, <<t_g, 100>> }, << >>, MaxCalls),
       \* a check beside a point
       Bench({t_p},
             { PArgs(<<1, 2>>, "eq", 1, 1, FALSE) },
             { }, { },
             {t_g_c},
             { CArgs(1, 1) },
             1 .. 2, { <<t_g_c>>, <<t_g_c, t_p>> },
             { <<top, 50>> }, << <<t_g_c, "PASS">>, <<t_g_c, "FAIL">> >>, MaxCalls),
       \* names without a parent segment
       Bench({bare, t_p},
             { PArgs(<<1, 2>>, "eq", 1, 1, FALSE) },
             {bare}, { XArgs(<<t_p>>, { }, 1, 1) },
             {bare, t_g_c}, { CArgs(1, 1) },
             0 .. 1, { <<bare>>, <<t_p>>, <<t_g_c>> },
             { <<bare, 50>> }, << >>, MaxCalls),
       \* a check alone, sampled more often
       Bench({ }, { }, { }, { },
             {t_g_c},
             { CArgs(1, 1), CArgs(2, 2) },
             { }, { <<t_g_c>> },
             { <<t_g_c, 100>> }, << >>, MaxCheckCalls),
       \* a point of size 4
       Bench({t_p},
             { PArgs(<<1, 2, 3, 4>>, "eq", 1, 1, FALSE) },
             { }, { }, { }, { },
             1 .. 4, { <<t_p>> },
             { <<t_p, 50>>, <<top, 50>> }, << >>, MaxCalls) >>

H == Harnesses[harness]

----------------------------------------------------------------------------
(* Objects *)

\* "." in name
HasDot(name) == Len(name) > 1

\* ".".join(name.split(".")[:-1])
ParentName(name) == SubSeq(name, 1, Len(name) - 1)

\* The attributes CoverItem.__init__ sets, and, unset (built = FALSE) until
\* the subclass constructor has set them, the attributes of the subclasses.
NewItem(kind, id) ==
    [ id |-> id, kind |-> kind, built |-> FALSE,
      _size |-> 0, _coverage |-> 0, _parent |-> NoName, _children |-> << >>,
      _new_hits |-> << >>, _threshold_callbacks |-> << >>, _bins_callbacks |-> { },
      _weight |-> 0, _at_least |-> 0, _injection |-> FALSE, _relation |-> "eq",
      _keys |-> << >>, _hits |-> << >>, _items |-> << >> ]

\* __init__ without self._parent._children.append(self)
RECURSIVE CoverItemInit_NoLink(_, _, _)
CoverItemInit_NoLink(db, name, kind) ==
    IF HasDot(name)
    THEN LET parent_name == ParentName(name)
             db1 == IF parent_name \notin DOMAIN db
                    THEN CoverItemInit_NoLink(db, parent_name, "CoverItem")
                    ELSE db
         IN  (name :> [NewItem(kind, Cardinality(DOMAIN db1)) EXCEPT !._parent = parent_name])
             @@ db1
    ELSE (name :> NewItem(kind, Cardinality(DOMAIN db))) @@ db

\* CoverItem.__init__(name) on a new object of class kind: creates the
\* missing ancestors first, links the object to its parent and enters it
\* in coverage_db.  An object's id is its rank of entry in coverage_db.
RECURSIVE CoverItemInit(_, _, _)
CoverItemInit(db, name, kind) ==
    IF HasDot(name)
    THEN LET parent_name == ParentName(name)
             db1 == IF parent_name \notin DOMAIN db
                    THEN CoverItemInit(db, parent_name, "CoverItem")
                    ELSE db
             db2 == [db1 EXCEPT ![parent_name]._children = Append(@, name)]
         IN  (name :> [NewItem(kind, Cardinality(DOMAIN db2)) EXCEPT !._parent = parent_name])
             @@ db2
    ELSE (name :> NewItem(kind, Cardinality(DOMAIN db))) @@ db

\* _update_size without the call on the parent
_update_size_NoParent(db, name, size) == [db EXCEPT ![name]._size = @ + size]

\* CoverItem._update_size(size) on the object named name
RECURSIVE _update_size(_, _, _)
_update_size(db, name, size) ==
    LET db1 == [db EXCEPT ![name]._size = @ + size]
    IN  IF db[name]._parent # NoName
        THEN _update_size(db1, db[name]._parent, size)
        ELSE db1

\* the keys of OrderedDict.fromkeys(bins): bins without repetitions, in
\* order of first occurrence
RECURSIVE FromKeys(_)
FromKeys(bins) ==
    IF bins = << >> THEN << >>
    ELSE LET front == FromKeys(SubSeq(bins, 1, Len(bins) - 1))
             b == bins[Len(bins)]
         IN  IF \E i \in 1 .. Len(front) : front[i] = b THEN front ELSE Append(front, b)

Range(s) == { s[i] : i \in 1 .. Len(s) }

\* the bin True of a CoverPoint without bins; in Python True == 1 and the
\* two hash alike
TrueBin == 1

\* self._relation(result, bins)
Relation(rel, result, bin) ==
    IF rel = "eq" THEN result = bin ELSE result < bin

\* the coverage property of CoverPoint and of CoverCross
RECURSIVE SumUncovered(_, _, _)
SumUncovered(hits, at_least, keys) ==
    IF keys = { } THEN 0
    ELSE LET k == CHOOSE x \in keys : TRUE
         IN  (IF hits[k] < at_least THEN 1 ELSE 0) + SumUncovered(hits, at_least, keys \ {k})

\* coverage with the test hits <= at_least
BinsCoverage_Le(o) ==
    o._size - o._weight * SumUncovered(o._hits, o._at_least + 1, DOMAIN o._hits)

BinsCoverage(o) == o._size - o._weight * SumUncovered(o._hits, o._at_least, DOMAIN o._hits)

\* the check accepts PASS hits equal to at_least
CheckCoverage_Ge(o) ==
    IF o._hits["FAIL"] = 0 /\ o._hits["PASS"] >= o._at_least THEN o._weight ELSE 0

\* the check does not look at the FAIL hits
CheckCoverage_IgnoreFail(o) ==
    IF o._hits["PASS"] > o._at_least THEN o._weight ELSE 0

\* the coverage property of CoverCheck
CheckCoverage(o) ==
    IF o._hits["FAIL"] = 0 /\ o._hits["PASS"] > o._at_least THEN o._weight ELSE 0

\* obj.coverage, by class
Coverage(o) ==
    CASE o.kind = "CoverItem"  -> o._coverage
      [] o.kind = "CoverCheck" -> CheckCoverage(o)
      [] OTHER                 -> BinsCoverage(o)

----------------------------------------------------------------------------
(* Coverage propagation and callbacks *)

Event(cb, name, key) == [cb |-> cb, name |-> name, key |-> key]

Ok(db) == [db |-> db, fired |-> << >>, raised |-> "none"]

\* What a callback can read in coverage_db: the coverage and the hits of
\* every object (an object whose constructor raised has neither).
View(db) ==
    [n \in DOMAIN db |->
        [coverage |-> IF db[n].kind = "CoverItem" \/ db[n].built THEN Coverage(db[n]) ELSE 0,
         hits |-> db[n]._hits]]

\* the callback of event called when a callback reads view in coverage_db
Called(event, view) == [cb |-> event.cb, name |-> event.name, key |-> event.key, view |-> view]

\* callbacks called one after the other, none changing coverage_db
CalledAll(events, db) ==
    IF events = << >> THEN << >>
    ELSE LET view == View(db) IN [i \in 1 .. Len(events) |-> Called(events[i], view)]

\* the callback calls without what they could read
Events(calls) == [i \in 1 .. Len(calls) |-> Event(calls[i].cb, calls[i].name, calls[i].key)]

Views(calls) == [i \in 1 .. Len(calls) |-> calls[i].view]

\* the loop calling a callback whose threshold was already reached
ThresholdLoop_Ge(name, tcs, current_coverage, coverage, size) ==
    LET Crossed(ii) == ii * size >= 100 * current_coverage /\ ii * size <= 100 * coverage
        reached == SelectSeq(tcs, Crossed)
    IN  IF tcs # << >> /\ size = 0
        THEN [fired |-> << >>, raised |-> "ZeroDivisionError"]
        ELSE [fired |-> [i \in 1 .. Len(reached) |-> Event("threshold", name, reached[i])],
              raised |-> "none"]

\* the threshold callbacks of tcs called by the loop
\*   for ii in self._threshold_callbacks:
\*       if ii > 100 * current_coverage / size and ii <= 100 * coverage / size
\* or ZeroDivisionError
ThresholdLoop(name, tcs, current_coverage, coverage, size) ==
    LET Crossed(ii) == ii * size > 100 * current_coverage /\ ii * size <= 100 * coverage
        called == SelectSeq(tcs, Crossed)
    IN  IF tcs # << >> /\ size = 0
        THEN [fired |-> << >>, raised |-> "ZeroDivisionError"]
        ELSE [fired |-> [i \in 1 .. Len(called) |-> Event("threshold", name, called[i])],
              raised |-> "none"]

\* CoverItem._update_coverage(coverage) on the object named name
RECURSIVE _update_coverage(_, _, _)
_update_coverage(db, name, coverage) ==
    LET current_coverage == db[name]._coverage
        db1 == [db EXCEPT ![name]._coverage = @ + coverage]
        up == IF db[name]._parent # NoName
              THEN _update_coverage(db1, db[name]._parent, coverage)
              ELSE Ok(db1)
        self == up.db[name]
        own == ThresholdLoop(name, self._threshold_callbacks, current_coverage,
                             Coverage(self), self._size)
    IN  IF up.raised # "none" THEN up
        ELSE [db |-> up.db, fired |-> up.fired \o CalledAll(own.fired, up.db), raised |-> own.raised]

\* the parent notified of the coverage, not of its change
NotifyAndCheck_Absolute(db, name, current_coverage) ==
    LET self == db[name]
        up == _update_coverage(db, self._parent, Coverage(self))
        own == ThresholdLoop(name, self._threshold_callbacks, current_coverage,
                             Coverage(self), self._size)
    IN  IF up.raised # "none" THEN up
        ELSE [db |-> up.db, fired |-> up.fired \o CalledAll(own.fired, up.db), raised |-> own.raised]

\* the tail of every _wrapped_function: notify the parent of the change
\* of coverage, then check the object's own threshold callbacks
NotifyAndCheck(db, name, current_coverage) ==
    LET self == db[name]
        up == _update_coverage(db, self._parent, Coverage(self) - current_coverage)
        own == ThresholdLoop(name, self._threshold_callbacks, current_coverage,
                             Coverage(self), self._size)
    IN  IF up.raised # "none" THEN up
        ELSE [db |-> up.db, fired |-> up.fired \o CalledAll(own.fired, up.db), raised |-> own.raised]

----------------------------------------------------------------------------
(* Sampling: the _wrapped_function of each class *)

\* the loop without its break
Matched_All(o, result) ==
    LET Rel(b) == Relation(o._relation, result, b)
    IN  SelectSeq(o._keys, Rel)

\* the bins the loop over self._hits matches for result, in order
Matched(o, result) ==
    LET Rel(b) == Relation(o._relation, result, b)
        all == SelectSeq(o._keys, Rel)
    IN  IF o._injection \/ all = << >> THEN all ELSE << all[1] >>

BinsEvents(o, name, hit) ==
    LET HasCb(b) == b \in o._bins_callbacks
        called == SelectSeq(hit, HasCb)
    IN  [i \in 1 .. Len(called) |-> Event("bins", name, called[i])]

Count(s, x) == Cardinality({ i \in 1 .. Len(s) : s[i] = x })

\* The bins callbacks of the loop over the bins hit, each called inside
\* the loop: during[k] is coverage_db after the k-th bin of hit was
\* counted.
LoopCalls(o, name, hit, during) ==
    LET events == BinsEvents(o, name, hit)
        Turn(key) == CHOOSE k \in 1 .. Len(hit) : hit[k] = key
    IN  [i \in 1 .. Len(events) |-> Called(events[i], View(during[Turn(events[i].key)]))]

\* the tally of callback calls after the calls of events
Tally(tally, events) ==
    [e \in DOMAIN tally \cup Range(events) |->
        (IF e \in DOMAIN tally THEN tally[e] ELSE 0) + Count(events, e)]

\* _wrapped_function without self._new_hits = []
CoverPoint_call_KeepHits(db, name, result) ==
    LET self == db[name]
        current_coverage == Coverage(self)
        hit == Matched(self, result)
        DuringLoop(k) ==
            [db EXCEPT ![name]._hits = [b \in DOMAIN @ |-> @[b] + Count(SubSeq(hit, 1, k), b)],
                       ![name]._new_hits = @ \o SubSeq(hit, 1, k)]
        db1 == DuringLoop(Len(hit))
        r == NotifyAndCheck(db1, name, current_coverage)
    IN  [r EXCEPT !.fired = LoopCalls(self, name, hit, [k \in 1 .. Len(hit) |-> DuringLoop(k)]) \o @]

\* CoverPoint.__call__._wrapped_function, result being the value of
\* self._transformation on the call's arguments
CoverPoint_call(db, name, result) ==
    LET self == db[name]
        current_coverage == Coverage(self)
        hit == Matched(self, result)
        DuringLoop(k) ==
            [db EXCEPT ![name]._hits = [b \in DOMAIN @ |-> @[b] + Count(SubSeq(hit, 1, k), b)],
                       ![name]._new_hits = SubSeq(hit, 1, k)]
        db1 == DuringLoop(Len(hit))
        r == NotifyAndCheck(db1, name, current_coverage)
    IN  [r EXCEPT !.fired = LoopCalls(self, name, hit, [k \in 1 .. Len(hit) |-> DuringLoop(k)]) \o @]

\* itertools.product(*lists), as a list
RECURSIVE Product(_)
Product(lists) ==
    IF lists = << >> THEN << << >> >>
    ELSE LET front == Product(SubSeq(lists, 1, Len(lists) - 1))
             lst == lists[Len(lists)]
             n == Len(lst)
         IN  [k \in 1 .. Len(front) * n |->
                 Append(front[((k - 1) \div n) + 1], lst[((k - 1) % n) + 1])]

\* CoverCross.__call__._wrapped_function
CoverCross_call(db, name) ==
    LET self == db[name]
        current_coverage == Coverage(self)
        hit_lists == [i \in 1 .. Len(self._items) |-> db[self._items[i]]._new_hits]
        InHits(x) == x \in DOMAIN self._hits
        hit == SelectSeq(Product(hit_lists), InHits)
        DuringLoop(k) ==
            [db EXCEPT ![name]._hits = [x \in DOMAIN @ |-> @[x] + Count(SubSeq(hit, 1, k), x)]]
        db1 == DuringLoop(Len(hit))
        r == NotifyAndCheck(db1, name, current_coverage)
    IN  [r EXCEPT !.fired = LoopCalls(self, name, hit, [k \in 1 .. Len(hit) |-> DuringLoop(k)]) \o @]

\* _wrapped_function with f_pass evaluated after f_fail
CoverCheck_call_PassLast(db, name, fail, pass) ==
    LET self == db[name]
        current_coverage == Coverage(self)
        passed0 == IF fail THEN "False" ELSE "None"
        passed == IF pass THEN "True" ELSE passed0
        bin == IF passed = "True" THEN "PASS" ELSE "FAIL"
        db1 == [db EXCEPT ![name]._hits[bin] = @ + 1]
        r == NotifyAndCheck(db1, name, current_coverage)
        cbs == IF "PASS" \in self._bins_callbacks /\ passed = "True"
               THEN << Event("bins", name, "PASS") >>
               ELSE IF "FAIL" \in self._bins_callbacks /\ passed # "True"
                    THEN << Event("bins", name, "FAIL") >>
                    ELSE << >>
    IN  IF passed = "None" THEN Ok(db1)
        ELSE IF r.raised # "none" THEN r
        ELSE [r EXCEPT !.fired = @ \o CalledAll(cbs, r.db)]

\* CoverCheck.__call__._wrapped_function, fail and pass being the values
\* of self._f_fail and self._f_pass on the call's arguments
CoverCheck_call(db, name, fail, pass) ==
    LET self == db[name]
        current_coverage == Coverage(self)
        passed0 == IF pass THEN "True" ELSE "None"
        passed == IF fail THEN "False" ELSE passed0
        bin == IF passed = "True" THEN "PASS" ELSE "FAIL"
        db1 == [db EXCEPT ![name]._hits[bin] = @ + 1]
        r == NotifyAndCheck(db1, name, current_coverage)
        cbs == IF "PASS" \in self._bins_callbacks /\ passed = "True"
               THEN << Event("bins", name, "PASS") >>
               ELSE IF "FAIL" \in self._bins_callbacks /\ passed # "True"
                    THEN << Event("bins", name, "FAIL") >>
                    ELSE << >>
    IN  IF passed = "None" THEN Ok(db1)
        ELSE IF r.raised # "none" THEN r
        ELSE [r EXCEPT !.fired = @ \o CalledAll(cbs, r.db)]

\* the _wrapped_function of the object named name; an object whose
\* constructor raised lacks the attributes the function reads first
Sample(db, name, results, fail, pass) ==
    LET self == db[name]
    IN  CASE ~self.built                -> [Ok(db) EXCEPT !.raised = "AttributeError"]
          [] self.kind = "CoverPoint"   -> CoverPoint_call(db, name, results[name])
          [] self.kind = "CoverCross"   -> CoverCross_call(db, name)
          [] OTHER                      -> CoverCheck_call(db, name, fail, pass)

\* the function the decorators are applied to
decorated_fun == << "decorated_fun" >>

\* One call of a function decorated with the objects of stack, outermost
\* first: each _wrapped_function samples and then calls the function it
\* wraps, the innermost one calls the decorated function; an exception ends
\* the call.  results[name] is the value of the transformation function of
\* the CoverPoint called name.  ran lists what ran, in order.
RECURSIVE RunStack(_, _, _, _, _)
RunStack(db, stack, results, fail, pass) ==
    IF stack = << >> THEN [db |-> db, fired |-> << >>, raised |-> "none", ran |-> << decorated_fun >>]
    ELSE LET r == Sample(db, Head(stack), results, fail, pass)
             rest == RunStack(r.db, Tail(stack), results, fail, pass)
         IN  IF r.raised # "none"
             THEN [db |-> r.db, fired |-> r.fired, raised |-> r.raised, ran |-> << Head(stack) >>]
             ELSE [rest EXCEPT !.fired = r.fired \o @, !.ran = << Head(stack) >> \o @]

\* reversed(s)
Reversed(s) == [i \in 1 .. Len(s) |-> s[Len(s) + 1 - i]]

\* the decorator without reversed()
coverageSection_InOrder(coverItems) ==
    LET RECURSIVE Nested(_, _)
        Nested(decorators, fn) ==
            IF decorators = << >> THEN fn
            ELSE Nested(Tail(decorators), << Head(decorators) >> \o fn)
    IN  Nested(coverItems, << >>)

\* coverageSection(*coverItems) applied to a function: the stack of
\* wrappers around it, outermost first, a wrapper being named by its
\* object.  dec(f) puts the wrapper of dec around f:
\*   for dec in reversed(*decorators): f = dec(f)
coverageSection(coverItems) ==
    LET RECURSIVE Nested(_, _)
        Nested(decorators, fn) ==
            IF decorators = << >> THEN fn
            ELSE Nested(Tail(decorators), << Head(decorators) >> \o fn)
    IN  Nested(Reversed(coverItems), << >>)

----------------------------------------------------------------------------
(* Construction: __new__ and __init__ of each class *)

Built(db, id) == [db |-> db, ret |-> id, raised |-> "none"]
Raise(db, exc) == [db |-> db, ret |-> NoRet, raised |-> exc]

\* the constructor without the lookup of name in coverage_db
CoverPoint_init_NoLookup(db, name, a) ==
    LET db1 == CoverItemInit(db, name, "CoverPoint")
        keys == IF Len(a.bins) # 0 THEN FromKeys(a.bins) ELSE << TrueBin >>
        size == IF Len(a.bins) # 0 THEN a.weight * Len(a.bins) ELSE a.weight
        db2 == [db1 EXCEPT ![name] =
                   [@ EXCEPT !.built = TRUE, !._relation = a.rel,
                             !._weight = a.weight, !._at_least = a.at_least,
                             !._injection = a.inj, !._size = size,
                             !._keys = keys, !._hits = [b \in Range(keys) |-> 0],
                             !._new_hits = << >>]]
    IN  IF db1[name]._parent = NoName THEN Raise(db1, "Exception")
        ELSE Built(_update_size(db2, db2[name]._parent, size), db2[name].id)

\* CoverPoint(name, bins=a.bins, rel=a.rel, weight=a.weight,
\*            at_least=a.at_least, inj=a.inj)
CoverPoint_init(db, name, a) ==
    IF name \in DOMAIN db THEN Built(db, db[name].id)
    ELSE LET db1 == CoverItemInit(db, name, "CoverPoint")
             keys == IF Len(a.bins) # 0 THEN FromKeys(a.bins) ELSE << TrueBin >>
             size == IF Len(a.bins) # 0 THEN a.weight * Len(a.bins) ELSE a.weight
             db2 == [db1 EXCEPT ![name] =
                        [@ EXCEPT !.built = TRUE, !._relation = a.rel,
                                  !._weight = a.weight, !._at_least = a.at_least,
                                  !._injection = a.inj, !._size = size,
                                  !._keys = keys, !._hits = [b \in Range(keys) |-> 0],
                                  !._new_hits = << >>]]
         IN  IF db1[name]._parent = NoName THEN Raise(db1, "Exception")
             ELSE Built(_update_size(db2, db2[name]._parent, size), db2[name].id)

\* a pattern removing the tuples it equals at some position
Ignored_Any(x_bins, ign_bins) ==
    \E ignore_bins \in ign_bins :
        \E ii \in 1 .. Len(x_bins) : ignore_bins[ii] = x_bins[ii]

\* the tuples of itertools.product(*bins_lists) that no pattern of
\* ign_bins removes
Ignored(x_bins, ign_bins) ==
    \E ignore_bins \in ign_bins :
        \A ii \in 1 .. Len(x_bins) :
            ignore_bins[ii] = None \/ ignore_bins[ii] = x_bins[ii]

CrossBins(bins_lists, ign_bins) ==
    { x_bins \in Range(Product(bins_lists)) : ~Ignored(x_bins, ign_bins) }

\* CoverCross(name, items=a.items, ign_bins=a.ign_bins, weight=a.weight,
\*            at_least=a.at_least)
CoverCross_init(db, name, a) ==
    IF name \in DOMAIN db THEN Built(db, db[name].id)
    ELSE LET db1 == CoverItemInit(db, name, "CoverCross")
             db2 == [db1 EXCEPT ![name] =
                        [@ EXCEPT !._weight = a.weight, !._at_least = a.at_least,
                                  !._items = a.items]]
             bins_lists == [i \in 1 .. Len(a.items) |-> db2[a.items[i]]._keys]
             x_bins == CrossBins(bins_lists, a.ign_bins)
             size == a.weight * Cardinality(x_bins)
             db3 == [db2 EXCEPT ![name] =
                        [@ EXCEPT !.built = TRUE, !._hits = [x \in x_bins |-> 0],
                                  !._size = size]]
         IN  IF db1[name]._parent = NoName THEN Raise(db1, "Exception")
             ELSE IF \E i \in 1 .. Len(a.items) : a.items[i] \notin DOMAIN db2
                  THEN Raise(db2, "KeyError")
                  ELSE Built(_update_size(db3, db3[name]._parent, size), db3[name].id)

\* CoverCheck(name, f_fail, f_pass, weight=a.weight, at_least=a.at_least)
CoverCheck_init(db, name, a) ==
    IF name \in DOMAIN db THEN Built(db, db[name].id)
    ELSE LET db1 == CoverItemInit(db, name, "CoverCheck")
             db2 == [db1 EXCEPT ![name] =
                        [@ EXCEPT !.built = TRUE, !._weight = a.weight,
                                  !._at_least = a.at_least, !._size = a.weight,
                                  !._hits = [b \in {"PASS", "FAIL"} |-> 0]]]
         IN  IF db1[name]._parent = NoName THEN Raise(db1, "Exception")
             ELSE Built(_update_size(db2, db2[name]._parent, a.weight), db2[name].id)

----------------------------------------------------------------------------
(* Actions *)

Last(op, name, arg) == [op |-> op, name |-> name, arg |-> arg]

Construct(r, op, name, a) ==
    /\ coverage_db' = r.db
    /\ ret' = r.ret
    /\ raised' = r.raised
    /\ fired' = << >> /\ seen' = << >> /\ trace' = << >>
    /\ last' = Last(op, name, a)
    /\ UNCHANGED <<callback_calls, ncalls, harness>>

CoverPoint(name, a) == Construct(CoverPoint_init(coverage_db, name, a), "CoverPoint", name, a)

CoverCross(name, a) == Construct(CoverCross_init(coverage_db, name, a), "CoverCross", name, a)

CoverCheck(name, a) == Construct(CoverCheck_init(coverage_db, name, a), "CoverCheck", name, a)

\* coverage_db[name].add_threshold_callback(callback, threshold)
add_threshold_callback(name, threshold) ==
    /\ name \in DOMAIN coverage_db
    /\ coverage_db' = [coverage_db EXCEPT ![name]._threshold_callbacks =
                          IF threshold \in Range(@) THEN @ ELSE Append(@, threshold)]
    /\ ret' = NoRet /\ raised' = "none" /\ fired' = << >> /\ seen' = << >> /\ trace' = << >>
    /\ last' = Last("add_threshold_callback", name, threshold)
    /\ UNCHANGED <<callback_calls, ncalls, harness>>

\* coverage_db[name].add_bins_callback(callback, bins)
add_bins_callback(name, bins) ==
    /\ name \in DOMAIN coverage_db
    /\ coverage_db' = [coverage_db EXCEPT ![name]._bins_callbacks = @ \cup {bins}]
    /\ ret' = NoRet /\ raised' = "none" /\ fired' = << >> /\ seen' = << >> /\ trace' = << >>
    /\ last' = Last("add_bins_callback", name, bins)
    /\ UNCHANGED <<callback_calls, ncalls, harness>>

\* the built objects of class kind among those of stack
OfKind(stack, kind) ==
    { n \in Range(stack) : coverage_db[n].built /\ coverage_db[n].kind = kind }

\* f_fail and f_pass are evaluated by a CoverCheck only
Verdicts(stack) == IF OfKind(stack, "CoverCheck") # { } THEN BOOLEAN ELSE {FALSE}

\* one call of a function decorated with coverageSection(*coverItems),
\* or with the same decorators written one above the other: results, fail
\* and pass are what the transformation functions, f_fail and f_pass
\* return on the arguments of the call
Call(coverItems, results, fail, pass) ==
    /\ ncalls < H.calls
    /\ \E r \in { RunStack(coverage_db, coverageSection(coverItems), results, fail, pass) } :
        /\ ncalls' = ncalls + 1
        /\ coverage_db' = r.db
        /\ ret' = NoRet
        /\ raised' = r.raised
        /\ fired' = Events(r.fired)
        /\ seen' = Views(r.fired)
        /\ trace' = r.ran
        /\ callback_calls' = Tally(callback_calls, Events(r.fired))
        /\ last' = Last("call", coverItems, [results |-> results, fail |-> fail, pass |-> pass])
        /\ UNCHANGED harness

Init ==
    /\ coverage_db = << >>
    /\ ret = NoRet
    /\ raised = "none"
    /\ fired = << >>
    /\ seen = << >>
    /\ trace = << >>
    /\ callback_calls = << >>
    /\ last = Last("init", NoName, 0)
    /\ ncalls = 0
    /\ harness \in 1 .. Len(Harnesses)

Next ==
    \/ \E name \in H.pointNames, args \in H.pointArgs : CoverPoint(name, args)
    \/ \E name \in H.crossNames, args \in H.crossArgs : CoverCross(name, args)
    \/ \E name \in H.checkNames, args \in H.checkArgs : CoverCheck(name, args)
    \/ \E cb \in H.thresholds : add_threshold_callback(cb[1], cb[2])
    \/ \E i \in 1 .. Len(H.bins) : add_bins_callback(H.bins[i][1], H.bins[i][2])
    \/ \E stack \in H.stacks :
          /\ \A i \in 1 .. Len(stack) : stack[i] \in DOMAIN coverage_db
          /\ \E results \in [OfKind(stack, "CoverPoint") -> H.values],
                fail \in Verdicts(stack), pass \in Verdicts(stack) :
                Call(stack, results, fail, pass)

Spec == Init /\ [][Next]_vars

----------------------------------------------------------------------------
(* The tree, as the properties below read it *)

Names == DOMAIN coverage_db

Groups == { n \in Names : coverage_db[n].kind = "CoverItem" }

\* the bin-bearing nodes: the objects whose constructor returned
Leaves == { n \in Names : coverage_db[n].kind # "CoverItem" /\ coverage_db[n].built }

RECURSIVE Ancestors(_, _)
Ancestors(db, n) ==
    IF db[n]._parent = NoName THEN { }
    ELSE {db[n]._parent} \cup Ancestors(db, db[n]._parent)

LeavesBelow(n) == { m \in Leaves : n \in Ancestors(coverage_db, m) }

RECURSIVE SumOver(_, _)
SumOver(f, set) ==
    IF set = { } THEN 0
    ELSE LET e == CHOOSE e \in set : TRUE IN f[e] + SumOver(f, set \ {e})

LocalCoverage == [n \in Leaves |-> Coverage(coverage_db[n])]

\* weight x bins of a Point, weight x surviving tuples of a Cross, weight
\* of a Check
WeightedBins ==
    [n \in Leaves |->
        IF coverage_db[n].kind = "CoverCheck" THEN coverage_db[n]._weight
        ELSE coverage_db[n]._weight * Cardinality(DOMAIN coverage_db[n]._hits)]

IsCall1(n) == last.op = "call" /\ last.name = << n >>

----------------------------------------------------------------------------
(* C1: the coverage of every grouping node equals the sum of the current
   local coverage of all bin-bearing nodes below it. *)
C1_GroupCoverageIsSum ==
    \A n \in Groups : coverage_db[n]._coverage = SumOver(LocalCoverage, LeavesBelow(n))

(* C2: for every node, grouping node or Point, Cross, Check,
   0 <= coverage <= size. *)
C2_CoverageWithinSize ==
    \A n \in Groups \cup Leaves :
        /\ 0 <= Coverage(coverage_db[n])
        /\ Coverage(coverage_db[n]) <= coverage_db[n]._size

\* a Check that has passed and has a FAIL hit, below a grouping node whose
\* coverage is its whole size
C2_Witness ==
    \E n \in Leaves :
        /\ coverage_db[n].kind = "CoverCheck"
        /\ coverage_db[n]._hits["PASS"] >= 2
        /\ coverage_db[n]._hits["FAIL"] >= 1
        /\ \E m \in Ancestors(coverage_db, n) :
              coverage_db[m]._coverage = coverage_db[m]._size /\ coverage_db[m]._size > 0

C3_SizeInv ==
    \A n \in Groups : coverage_db[n]._size = SumOver(WeightedBins, LeavesBelow(n))

C3_SizeFrame ==
    last'.op = "call" =>
        /\ DOMAIN coverage_db' = DOMAIN coverage_db
        /\ \A n \in DOMAIN coverage_db : coverage_db'[n]._size = coverage_db[n]._size

(* C3: the size of every grouping node is the sum of the weighted bin
   counts of the Point, Cross and Check nodes below it, at any depth, and
   no sample changes the size of any node. *)
C3_GroupSizeIsWeightedBins == []C3_SizeInv /\ [][C3_SizeFrame]_vars

\* a grouping node two levels above a sampled Cross, with a Point beside
C3_Witness ==
    /\ last.op = "call"
    /\ { t_p, t_q, t_g_x } \subseteq Leaves
    /\ coverage_db[top]._size = 7
    /\ coverage_db[t_g]._size = 3
    /\ coverage_db[top]._coverage > 0

IsConstructor(op) == op \in {"CoverPoint", "CoverCross", "CoverCheck"}

C4_Step ==
    (IsConstructor(last'.op) /\ last'.name \in DOMAIN coverage_db) =>
        /\ coverage_db' = coverage_db
        /\ ret' = coverage_db[last'.name].id
        /\ raised' = "none"

(* C4: a constructor call on a name that is already registered returns
   the existing instance and changes nothing in coverage_db, whatever its
   other arguments. *)
C4_RegisteringTwiceChangesNothing == [][C4_Step]_vars

\* a second CoverPoint call with another weight on a Point that has hits
C4_Witness ==
    /\ last.op = "CoverPoint"
    /\ last.name \in Leaves
    /\ coverage_db[last.name].kind = "CoverPoint"
    /\ last.arg.weight # coverage_db[last.name]._weight
    /\ last.arg.bins # coverage_db[last.name]._keys
    /\ ret = coverage_db[last.name].id
    /\ \E b \in DOMAIN coverage_db[last.name]._hits : coverage_db[last.name]._hits[b] > 0

\* position of bin b in the declared bins of o
Position(o, b) == CHOOSE i \in 1 .. Len(o._keys) : o._keys[i] = b

\* b is a bin one sample of o with value v must increment
MustHit(o, v, b) ==
    /\ Relation(o._relation, v, b)
    /\ o._injection \/ \A i \in 1 .. Position(o, b) - 1 : ~Relation(o._relation, v, o._keys[i])

C5_Step ==
    \A n \in Leaves :
        (coverage_db[n].kind = "CoverPoint" /\ last'.op = "call" /\ last'.name = << n >>) =>
            \A b \in DOMAIN coverage_db[n]._hits :
                coverage_db'[n]._hits[b] =
                    coverage_db[n]._hits[b]
                    + (IF MustHit(coverage_db[n], last'.arg.results[n], b) THEN 1 ELSE 0)

(* C5: one sample of a Point with value v increments by 1 the first bin in
   declared order that v matches and no other bin, or, with injection,
   every bin that v matches; bins [1,2,3] with equality sampled with
   1, 2, 1 have hits 2, 1, 0, coverage 2 and size 3. *)
C5_SampleIncrementsMatchingBins == [][C5_Step]_vars

C5_Witness ==
    /\ IsCall1(t_p)
    /\ t_p \in Leaves
    /\ coverage_db[t_p]._keys = <<1, 2, 3>>
    /\ coverage_db[t_p]._relation = "eq"
    /\ coverage_db[t_p]._hits = [b \in {1, 2, 3} |-> IF b = 1 THEN 2 ELSE IF b = 2 THEN 1 ELSE 0]
    /\ Coverage(coverage_db[t_p]) = 2
    /\ coverage_db[t_p]._size = 3

CoveredBins(o) == { b \in DOMAIN o._hits : o._hits[b] >= o._at_least }

(* C6: the local coverage of a Point or Cross is weight x the number of
   its bins whose hit-count is at least at_least. *)
C6_CoverageCountsCoveredBins ==
    \A n \in Leaves :
        coverage_db[n].kind \in {"CoverPoint", "CoverCross"} =>
            Coverage(coverage_db[n]) = coverage_db[n]._weight * Cardinality(CoveredBins(coverage_db[n]))

\* a bin hit, but less than at_least times, beside a bin hit more than
\* at_least times
C6_Witness ==
    \E n \in Leaves :
        /\ coverage_db[n].kind \in {"CoverPoint", "CoverCross"}
        /\ \E b1, b2 \in DOMAIN coverage_db[n]._hits :
              /\ coverage_db[n]._hits[b1] > 0
              /\ coverage_db[n]._hits[b1] < coverage_db[n]._at_least
              /\ coverage_db[n]._hits[b2] > coverage_db[n]._at_least
        /\ Coverage(coverage_db[n]) = coverage_db[n]._weight

AllBins == UNION { DOMAIN coverage_db[n]._hits : n \in { m \in Leaves : coverage_db[m].kind = "CoverPoint" } }

Surviving(items, ign_bins) ==
    { tuple \in [1 .. Len(items) -> AllBins] :
        /\ \A i \in 1 .. Len(items) : tuple[i] \in DOMAIN coverage_db[items[i]]._hits
        /\ ~ \E pattern \in ign_bins :
                \A i \in 1 .. Len(items) : pattern[i] # None => pattern[i] = tuple[i] }

C7_Step ==
    ( /\ last'.op = "CoverCross"
      /\ last'.name \notin DOMAIN coverage_db
      /\ raised' = "none" ) =>
        /\ DOMAIN coverage_db'[last'.name]._hits = Surviving(last'.arg.items, last'.arg.ign_bins)
        /\ \A tuple \in DOMAIN coverage_db'[last'.name]._hits : coverage_db'[last'.name]._hits[tuple] = 0
        /\ coverage_db'[last'.name]._size =
              last'.arg.weight * Cardinality(Surviving(last'.arg.items, last'.arg.ign_bins))

(* C7: at construction, the bins of a Cross are the tuples of the Cartesian
   product of the bins of its item Points that no ignore pattern equals at
   each position where the pattern is not None, and its size is weight x
   their number. *)
C7_CrossBinsAreProductMinusIgnored == [][C7_Step]_vars

\* bins {1,2} x {1,2} with ignore pattern (1,1): three cross-bins
C7_Witness ==
    /\ last.op = "CoverCross"
    /\ last.arg.ign_bins = { <<1, 1>> }
    /\ last.name \in Leaves
    /\ ret = coverage_db[last.name].id
    /\ coverage_db[t_p]._keys = <<1, 2>>
    /\ coverage_db[t_q]._keys = <<1, 2>>
    /\ DOMAIN coverage_db[last.name]._hits = { <<1, 2>>, <<2, 1>>, <<2, 2>> }
    /\ coverage_db[last.name]._size = 3

Index(stack, n) == CHOOSE i \in 1 .. Len(stack) : stack[i] = n

ItemsBefore(stack, n) ==
    /\ n \in Range(stack)
    /\ \A i \in 1 .. Len(coverage_db[n]._items) :
          /\ coverage_db[n]._items[i] \in Range(stack)
          /\ Index(stack, coverage_db[n]._items[i]) < Index(stack, n)

C8_Step ==
    \A n \in Leaves :
        ( /\ coverage_db[n].kind = "CoverCross"
          /\ last'.op = "call"
          /\ ItemsBefore(last'.name, n) ) =>
            \A tuple \in DOMAIN coverage_db[n]._hits :
                coverage_db'[n]._hits[tuple] =
                    coverage_db[n]._hits[tuple]
                    + (IF \A i \in 1 .. Len(tuple) :
                             MustHit(coverage_db[coverage_db[n]._items[i]],
                                     last'.arg.results[coverage_db[n]._items[i]], tuple[i])
                       THEN 1 ELSE 0)

(* C8: when a call samples every item Point of a Cross before the Cross,
   the Cross increments by 1 exactly the cross-bins that are tuples of the
   bins its Points matched in that call, and no other. *)
C8_CrossCountsHitsOfSameCall == [][C8_Step]_vars

\* both Points matched bin 1 in an earlier call; the last call sampled 2
\* and 2 and the Cross after them: (2,2) is the only cross-bin ever hit
C8_Witness ==
    /\ last.op = "call"
    /\ last.name = << t_p, t_q, t_g_x >>
    /\ { t_p, t_q, t_g_x } \subseteq Leaves
    /\ last.arg.results[t_p] = 2 /\ last.arg.results[t_q] = 2
    /\ coverage_db[t_p]._hits[1] = 1
    /\ coverage_db[t_q]._hits[1] = 1
    /\ DOMAIN coverage_db[t_g_x]._hits = { <<1, 2>>, <<2, 1>>, <<2, 2>> }
    /\ coverage_db[t_g_x]._hits[<<2, 2>>] = 1
    /\ coverage_db[t_g_x]._hits[<<1, 2>>] = 0
    /\ coverage_db[t_g_x]._hits[<<2, 1>>] = 0

Checks == { n \in Leaves : coverage_db[n].kind = "CoverCheck" }

C9_Step ==
    \A n \in Checks :
        ( /\ last'.op = "call" /\ last'.name = << n >>
          /\ ~last'.arg.fail /\ ~last'.arg.pass ) =>
            /\ coverage_db' = coverage_db
            /\ fired' = << >>

(* C9: a Check sample for which the fail-predicate and the pass-predicate
   are both false changes nothing: no hit-count, no coverage, and no
   callback is called. *)
C9_IndeterminateChangesNothing == [][C9_Step]_vars

BinsCalls(events, n, key) ==
    Cardinality({ i \in 1 .. Len(events) :
                    events[i].cb = "bins" /\ events[i].name = n /\ events[i].key = key })

C10_Step ==
    \A n \in Checks :
        ( /\ last'.op = "call" /\ n \in Range(last'.name)
          /\ last'.arg.fail ) =>
            /\ coverage_db'[n]._hits["FAIL"] = coverage_db[n]._hits["FAIL"] + 1
            /\ coverage_db'[n]._hits["PASS"] = coverage_db[n]._hits["PASS"]
            /\ BinsCalls(fired', n, "PASS") = 0
            /\ BinsCalls(fired', n, "FAIL") = (IF "FAIL" \in coverage_db[n]._bins_callbacks THEN 1 ELSE 0)

(* C10: a Check sample for which the fail-predicate is true increments the
   FAIL hit-count by 1 and not the PASS hit-count, whatever the
   pass-predicate returns, and calls the FAIL bins callback, never the
   PASS one. *)
C10_FailOverridesPass == [][C10_Step]_vars

\* both predicates true, both callbacks registered, after a passing sample
C10_Witness ==
    /\ last.op = "call"
    /\ last.arg.fail /\ last.arg.pass
    /\ \E n \in Checks :
          /\ n \in Range(last.name)
          /\ coverage_db[n]._bins_callbacks = {"PASS", "FAIL"}
          /\ coverage_db[n]._hits["PASS"] >= 1
          /\ coverage_db[n]._hits["FAIL"] = 1
          /\ BinsCalls(fired, n, "FAIL") = 1

\* how many times the callback has been called since Init
CallsOf(cb, n, key) ==
    IF Event(cb, n, key) \in DOMAIN callback_calls
    THEN callback_calls[Event(cb, n, key)] ELSE 0

\* the call that makes the step samples n: no exception ended it
Samples(n) == last'.op = "call" /\ n \in Range(last'.name) /\ raised' = "none"

(* C11: a Check whose FAIL hit-count is 0 and whose PASS hit-count has
   reached at_least has coverage = weight; with at_least = 1 one passing
   sample is enough. *)
C11_CoveredAfterAtLeastPasses ==
    \A n \in Checks :
        (coverage_db[n]._hits["FAIL"] = 0 /\ coverage_db[n]._hits["PASS"] >= coverage_db[n]._at_least)
            => Coverage(coverage_db[n]) = coverage_db[n]._weight

C12_Inv ==
    \A n \in Checks : coverage_db[n]._hits["FAIL"] > 0 => Coverage(coverage_db[n]) = 0

C12_Step ==
    \A n \in Checks :
        (coverage_db[n]._hits["FAIL"] > 0 \/ (Samples(n) /\ last'.arg.fail)) =>
            /\ n \in DOMAIN coverage_db'
            /\ coverage_db'[n]._hits["FAIL"] > 0
            /\ Coverage(coverage_db'[n]) = 0

(* C12: once a Check has had a failing sample its coverage is 0 in every
   later state, whatever number of passing samples came before or come
   after. *)
C12_FailIsPermanent == []C12_Inv /\ [][C12_Step]_vars

\* at_least 1; the threshold callback at 100 was called, so the coverage
\* was weight; one failing sample; the fifth sample passes, coverage 0
C12_Witness ==
    /\ t_g_c \in Checks
    /\ coverage_db[t_g_c]._at_least = 1
    /\ ncalls = 5
    /\ last.op = "call" /\ last.arg.pass /\ ~last.arg.fail
    /\ coverage_db[t_g_c]._hits["PASS"] = 4
    /\ coverage_db[t_g_c]._hits["FAIL"] = 1
    /\ CallsOf("threshold", t_g_c, 100) = 1
    /\ Coverage(coverage_db[t_g_c]) = 0

(* C13: the coverage of a Check is 0 or weight, and it is weight exactly
   when its FAIL hit-count is 0 and its PASS hit-count exceeds at_least. *)
C13_CheckCoverageIsZeroOrWeight ==
    \A n \in Checks :
        /\ Coverage(coverage_db[n]) \in {0, coverage_db[n]._weight}
        /\ Coverage(coverage_db[n]) = coverage_db[n]._weight
              <=> ( /\ coverage_db[n]._hits["FAIL"] = 0
                    /\ coverage_db[n]._hits["PASS"] > coverage_db[n]._at_least )

\* a Check that never failed, whose PASS hit-count is at_least: not covered
C13_Witness ==
    \E n \in Checks :
        /\ last.op = "call" /\ n \in Range(last.name) /\ last.arg.pass /\ ~last.arg.fail
        /\ coverage_db[n]._weight = 2
        /\ coverage_db[n]._hits["FAIL"] = 0
        /\ coverage_db[n]._hits["PASS"] = coverage_db[n]._at_least
        /\ Coverage(coverage_db[n]) = 0
        /\ coverage_db[coverage_db[n]._parent]._coverage = 0

(* C14: a threshold callback registered at percentage P on a node is
   called at most once over any sequence of samples, also on a grouping
   node that has a Check and Points below it. *)
C14_ThresholdCalledAtMostOnce ==
    \A e \in DOMAIN callback_calls : e.cb = "threshold" => callback_calls[e] <= 1

\* The samples of the call that makes the step, in order, that lie below
\* the grouping node n, and the change of local coverage of each.
Below(n) == { i \in 1 .. Len(last'.name) : n \in Ancestors(coverage_db, last'.name[i]) }

LocalDelta ==
    [i \in 1 .. Len(last'.name) |->
        Coverage(coverage_db'[last'.name[i]]) - Coverage(coverage_db[last'.name[i]])]

\* The delta sample i delivers to the grouping node n: the change of local
\* coverage of a Point or Cross; for the one Check of a stack, what is left
\* of the change of n's coverage over the call.
Delivered(n) ==
    [i \in 1 .. Len(last'.name) |->
        IF coverage_db[last'.name[i]].kind = "CoverCheck"
        THEN (coverage_db'[n]._coverage - coverage_db[n]._coverage)
             - SumOver(LocalDelta, Below(n) \ {i})
        ELSE LocalDelta[i]]

\* coverage of the grouping node n before sample i of the call
BeforeSample(n, i) ==
    coverage_db[n]._coverage + SumOver(Delivered(n), { j \in Below(n) : j < i })

\* the percentage of a node of size size goes from below P to at or above P
Crosses(P, before, after, size) == 100 * before < P * size /\ P * size <= 100 * after

\* the number of deltas of the call that take node n across P
Crossings(n, P) ==
    IF coverage_db[n].kind = "CoverItem"
    THEN Cardinality({ i \in Below(n) :
            Crosses(P, BeforeSample(n, i), BeforeSample(n, i) + Delivered(n)[i],
                    coverage_db[n]._size) })
    ELSE IF n \in Range(last'.name)
            /\ Crosses(P, Coverage(coverage_db[n]), Coverage(coverage_db'[n]),
                       coverage_db[n]._size)
         THEN 1 ELSE 0

C15_Step ==
    (last'.op = "call" /\ raised' = "none") =>
        /\ \A n \in DOMAIN coverage_db :
              \A P \in Range(coverage_db[n]._threshold_callbacks) :
                  Count(fired', Event("threshold", n, P)) = Crossings(n, P)
        /\ \A i \in 1 .. Len(fired') :
              fired'[i].cb = "threshold" =>
                  /\ fired'[i].name \in DOMAIN coverage_db
                  /\ fired'[i].key \in Range(coverage_db[fired'[i].name]._threshold_callbacks)

(* C15: for every delta a sample produces on the sampling node and on each
   of its ancestors, the threshold callback registered at P on the node is
   called once if the node's percentage was below P before the delta and
   is at or above P after it, and is not called otherwise. *)
C15_ThresholdCalledOnCrossing == [][C15_Step]_vars

\* thresholds at 50 on a Point of size 4 and on its parent: three samples
\* took the coverage 0 -> 1 -> 2 -> 3, each callback was called once, and
\* not by the last sample
C15_Witness ==
    /\ last.op = "call" /\ ncalls = 3
    /\ t_p \in Leaves
    /\ coverage_db[t_p]._size = 4
    /\ Coverage(coverage_db[t_p]) = 3
    /\ coverage_db[top]._coverage = 3
    /\ \A b \in DOMAIN coverage_db[t_p]._hits : coverage_db[t_p]._hits[b] <= 1
    /\ CallsOf("threshold", t_p, 50) = 1
    /\ CallsOf("threshold", top, 50) = 1
    /\ fired = << >>

BinBearing == { n \in Leaves : coverage_db[n].kind \in {"CoverPoint", "CoverCross"} }

C16_Step ==
    last'.op = "call" =>
        \A n \in BinBearing :
            \A b \in coverage_db[n]._bins_callbacks \cap DOMAIN coverage_db[n]._hits :
                Count(fired', Event("bins", n, b)) =
                    (IF /\ coverage_db[n]._hits[b] < coverage_db[n]._at_least
                        /\ coverage_db'[n]._hits[b] >= coverage_db[n]._at_least
                     THEN 1 ELSE 0)

(* C16: the bins callback registered for bin b of a Point or Cross is
   called by the sample that takes the hit-count of b to at_least, and by
   no other sample: not by later hits of b, nor by hits that leave b below
   at_least. *)
C16_BinsCallbackCalledWhenCovered == [][C16_Step]_vars

C17_Step ==
    last'.op = "call" =>
        \A n \in Leaves :
            \A b \in DOMAIN coverage_db[n]._hits :
                Count(fired', Event("bins", n, b)) =
                    (IF /\ b \in coverage_db[n]._bins_callbacks
                        /\ coverage_db'[n]._hits[b] > coverage_db[n]._hits[b]
                     THEN 1 ELSE 0)

(* C17: within one sample the bins callback of a bin is called at most
   once, and it is called if and only if the hit-count of the bin is
   incremented by the sample; a Check sample calls at most one of the PASS
   and FAIL callbacks, the one of its outcome. *)
C17_BinsCallbackCalledOnHit == [][C17_Step]_vars

C18_Step ==
    (IsConstructor(last'.op) /\ ~HasDot(last'.name)) =>
        /\ raised' # "none"
        /\ ret' = NoRet

(* C18: every constructor call of a Point, Cross or Check with a name
   without a dot ends with an exception and returns no object, also when
   an earlier call with the same name has failed. *)
C18_BareNameAlwaysFails == [][C18_Step]_vars

\* the call that makes the step samples only objects whose constructor
\* has returned
SamplesBuilt == last'.op = "call" /\ \A i \in 1 .. Len(last'.name) : last'.name[i] \in Leaves

C19_Step ==
    SamplesBuilt =>
        /\ raised' = "none"
        /\ (\A n \in Leaves : coverage_db'[n]._hits = coverage_db[n]._hits) =>
              /\ \A n \in Groups \cup Leaves : Coverage(coverage_db'[n]) = Coverage(coverage_db[n])
              /\ fired' = << >>

(* C19: no sample of a Point, Cross or Check whose registration succeeded
   raises an exception, whatever callbacks are registered and also when the
   size of a node is 0; a sample that matches no bin changes no coverage
   and calls no callback. *)
C19_SamplesNeverRaise == [][C19_Step]_vars

C20_Inv ==
    /\ \A n \in Names :
          IF HasDot(n)
          THEN /\ ParentName(n) \in Names
               /\ coverage_db[n]._parent = ParentName(n)
               /\ Count(coverage_db[ParentName(n)]._children, n) = 1
          ELSE coverage_db[n]._parent = NoName
    /\ \A n \in Names : \A m \in Range(coverage_db[n]._children) :
          m \in Names /\ HasDot(m) /\ ParentName(m) = n
    /\ \A n, m \in Names : coverage_db[n].id = coverage_db[m].id => n = m

C20_Step ==
    \A n \in Names :
        /\ n \in DOMAIN coverage_db'
        /\ coverage_db'[n].id = coverage_db[n].id
        /\ coverage_db'[n].kind = coverage_db[n].kind

(* C20: coverage_db is a well-formed tree: the name without its last
   segment of every registered name with a dot is registered, is the
   node's parent and lists the node exactly once among its children; a
   name maps to one object, entered when the name is first referenced and
   never replaced. *)
C20_RegistryIsTree == []C20_Inv /\ [][C20_Step]_vars

\* a tree of three levels whose grouping nodes were created implicitly;
\* the last operation is a constructor call on a registered name
C20_Witness ==
    /\ { t_p, t_q, t_g_x } \subseteq Leaves
    /\ Range(coverage_db[top]._children) = { t_p, t_q, t_g }
    /\ coverage_db[t_g]._children = << t_g_x >>
    /\ coverage_db[t_g].kind = "CoverItem"
    /\ last.op = "CoverPoint" /\ last.name = t_p
    /\ coverage_db[t_p].id < coverage_db[t_g_x].id
    /\ ret = coverage_db[t_p].id

\* the bins a sample of o with value v hits that were not covered before it
NewlyCovered(o, v) ==
    { b \in DOMAIN o._hits : MustHit(o, v, b) /\ o._hits[b] < o._at_least }

C21_Step ==
    \A n \in Leaves :
        (coverage_db[n].kind = "CoverPoint" /\ Samples(n)) =>
            /\ Range(coverage_db'[n]._new_hits) = NewlyCovered(coverage_db[n], last'.arg.results[n])
            /\ \A b \in DOMAIN coverage_db[n]._hits : Count(coverage_db'[n]._new_hits, b) <= 1

(* C21: after a sample of a Point its new_hits holds the bins the sample
   hit that were not covered before it, each once; a bin that was covered
   and is hit again is not in it. *)
C21_NewHitsAreNewlyCovered == [][C21_Step]_vars

C23_Step ==
    (IsConstructor(last'.op) /\ raised' # "none") => coverage_db' = coverage_db

(* C23: a constructor call that ends with an exception leaves coverage_db
   as it was: no entry under the name, no new child of any node, no size
   changed. *)
C23_FailedRegistrationChangesNothing == [][C23_Step]_vars

\* the step is a call that samples the Check c
SamplesCheck(c) == last'.op = "call" /\ c \in Range(last'.name)

C25_Step ==
    /\ \A n \in BinBearing : Coverage(coverage_db'[n]) >= Coverage(coverage_db[n])
    /\ \A g \in Groups :
          /\ LeavesBelow(g) \cap Checks = { } => coverage_db'[g]._coverage >= coverage_db[g]._coverage
          /\ coverage_db'[g]._coverage < coverage_db[g]._coverage =>
                \E c \in LeavesBelow(g) \cap Checks : SamplesCheck(c)
    /\ \A c \in Checks :
          Coverage(coverage_db'[c]) < Coverage(coverage_db[c]) =>
              /\ SamplesCheck(c)
              /\ Coverage(coverage_db[c]) - Coverage(coverage_db'[c]) = coverage_db[c]._weight
              /\ \A g \in Ancestors(coverage_db, c) :
                    coverage_db'[g]._coverage - coverage_db[g]._coverage =
                        SumOver(LocalDelta, Below(g) \ {Index(last'.name, c)}) - coverage_db[c]._weight

(* C25: the coverage of a Point, of a Cross and of a grouping node without
   a Check below it never decreases; a step that lowers the coverage of a
   node is a call that samples a Check, and it lowers the coverage of the
   Check and of each of its ancestors by the weight of the Check. *)
C25_OnlyCheckLowersCoverage == [][C25_Step]_vars

C22_Step ==
    last'.op = "call" =>
        /\ raised' = "none" => trace' = last'.name \o << decorated_fun >>
        /\ raised' # "none" => \E k \in 1 .. Len(last'.name) : trace' = SubSeq(last'.name, 1, k)
        /\ C8_Step

(* C22: a function decorated with coverageSection(i1, ..., in) samples i1,
   then i2, ..., then in at every call, and runs the decorated function
   after all of them; an exception in a sample ends the call there.  A
   Cross listed after its item Points counts the hits of the same call. *)
C22_SectionSamplesInListedOrder == [][C22_Step]_vars

\* a section of two Points and their Cross: the call sampled 2 and 2, the
\* three objects ran in the listed order before the function, and the
\* callback of cross-bin (2,2) was called although an earlier call had
\* left bin 1 in the new_hits of both Points
C22_Witness ==
    /\ last.op = "call"
    /\ last.name = << t_p, t_q, t_g_x >>
    /\ trace = << t_p, t_q, t_g_x, decorated_fun >>
    /\ ncalls >= 2
    /\ { t_p, t_q, t_g_x } \subseteq Leaves
    /\ <<2, 2>> \in DOMAIN coverage_db[t_g_x]._hits
    /\ last.arg.results[t_p] = 2 /\ last.arg.results[t_q] = 2
    /\ coverage_db[t_p]._hits[1] >= 1 /\ coverage_db[t_q]._hits[1] >= 1
    /\ coverage_db[t_g_x]._hits[<<2, 2>>] = 1
    /\ Count(fired, Event("bins", t_g_x, <<2, 2>>)) = 1

\* what a callback that reads the tree finds: the coverage of the grouping
\* node g is the sum of the local coverage of the bin-bearing nodes below
SeesSum(view, g) ==
    view[g].coverage = SumOver([m \in LeavesBelow(g) |-> view[m].coverage], LeavesBelow(g))

C24_Step ==
    last'.op = "call" =>
        \A i \in 1 .. Len(fired') :
            /\ fired'[i].cb = "bins" =>
                  seen'[i][fired'[i].name].hits = coverage_db'[fired'[i].name]._hits
            /\ \A g \in Groups : SeesSum(seen'[i], g)

(* C24: whenever a bins callback or a threshold callback is called during
   a sample, the hit-counts of the sampled node and the coverage of each
   of its ancestors already include the sample: the callback reads, for
   every grouping node, a coverage equal to the sum of the local coverage
   of the bin-bearing nodes below it. *)
C24_CallbacksSeeFinishedSample == [][C24_Step]_vars

====
